---- MODULE Spec2Model ----
(***************************************************************************)
(* A model of the video saver bot: the URL classifier and cache of bot.py, *)
(* the selection callback handle_download_callback with its progress       *)
(* throttle, and download_video of downloader.py with the two-call         *)
(* protocol of the fetch library.                                          *)
(*                                                                         *)
(* The event loop is single threaded: an action of the loop models the     *)
(* code between two suspension points that matter.  download_video runs on *)
(* an executor thread; its steps interleave freely with the loop.          *)
(* The fetch library, the chat transport and the membership API are the    *)
(* environment: their answers are inputs drawn with \E.                    *)
(***************************************************************************)
EXTENDS Integers, Sequences, FiniteSets, TLC

----------------------------------------------------------------------------
(* Bounds of the model *)

NumRequests == 2     \* selection callbacks handled in one run
NumUsers == 2        \* distinct Telegram users
MaxLinks == 1        \* links that reach quality_keyboard in one run
MaxEvents == 2       \* progress events the library fires in one run
MaxClock == 6        \* last tick of the clock
MaxFileBytes == 1    \* settings.max_file_bytes, scaled down
MaxStores == 3       \* links that reach quality_keyboard in a run of SpecLinks

(* The clock counts half seconds: time.monotonic() is now / 2 seconds and  *)
(* int(time.time()) is now \div TicksPerSecond.                            *)
TicksPerSecond == 2
ThrottleTicks == 3   \* the 1.5 s of throttled_edit

Requests == 1..NumRequests
Users == 1..NumUsers
Keys == 1..(MaxLinks + 1)          \* key k stands for "u<k>"; one key is never issued
Sizes == 0..(MaxFileBytes + 1)     \* 0 stands for None / absent / 0 (all falsy)

----------------------------------------------------------------------------
(* URLs are sequences of tokens; a token is a piece of text that the       *)
(* classifier and the normaliser never look inside, except for the four    *)
(* substrings sanitize_url searches for.                                   *)

Schemes == {"http://", "https://", "HTTPS://", "ftp://"}
Subdomains == {"www.", "m."}
Hosts == {"youtube.com", "YOUTUBE.COM", "youtu.be", "instagram.com", "instagr.am", "example.com"}
Others == {"/", "?", "&", " ", "watch", "v=1", "t=2", "p", "igsh=3"}
Tokens == Schemes \cup Subdomains \cup Hosts \cup Others

\* str.lower() on a token (re.IGNORECASE)
Lower(t) ==
    CASE t = "HTTPS://" -> "https://"
      [] t = "YOUTUBE.COM" -> "youtube.com"
      [] OTHER -> t

\* word in token, case sensitive, for the four words sanitize_url looks for
TokenHas(t, word) ==
    CASE word = "youtube" -> t = "youtube.com"
      [] word = "youtu.be" -> t = "youtu.be"
      [] word = "instagram" -> t = "instagram.com"
      [] word = "instagr.am" -> t = "instagr.am"
      [] OTHER -> FALSE

Contains(u, word) == \E i \in 1..Len(u) : TokenHas(u[i], word)

\* SUPPORTED_DOMAINS.match(url): anchored at the start of the string
SUPPORTED_DOMAINS(u) ==
    LET host(i) == /\ Len(u) >= i + 1
                   /\ Lower(u[i]) \in {"youtube.com", "youtu.be", "instagram.com", "instagr.am"}
                   /\ u[i + 1] = "/"
    IN  /\ Len(u) >= 3
        /\ Lower(u[1]) \in {"http://", "https://"}
        /\ \/ host(2)
           \/ Lower(u[2]) \in {"www.", "m."} /\ host(3)

\* str.strip(): drop leading and trailing whitespace
RECURSIVE LStrip(_)
LStrip(u) == IF u # <<>> /\ Head(u) = " " THEN LStrip(Tail(u)) ELSE u

RECURSIVE RStrip(_)
RStrip(u) == IF u # <<>> /\ u[Len(u)] = " " THEN RStrip(SubSeq(u, 1, Len(u) - 1)) ELSE u

Strip(u) == RStrip(LStrip(u))

\* s.split(sep, 1)[0]: the part before the first sep, or all of s
RECURSIVE SplitFirst(_, _)
SplitFirst(u, sep) ==
    IF u = <<>> \/ Head(u) = sep THEN <<>>
    ELSE <<Head(u)>> \o SplitFirst(Tail(u), sep)

\* the URL cut at its first "/" instead of at its parameters
sanitize_url_CutPath(url) == SplitFirst(Strip(url), "/")

sanitize_url(url) ==
    LET clean == Strip(url)
        c1 == IF Contains(clean, "youtube") \/ Contains(clean, "youtu.be")
              THEN SplitFirst(clean, "&") ELSE clean
        c2 == IF Contains(c1, "instagram") \/ Contains(c1, "instagr.am")
              THEN SplitFirst(c1, "?") ELSE c1
    IN  c2

\* The links users send in the request model
LinkURLs ==
    { <<"https://", "www.", "youtube.com", "/", "watch", "?", "v=1", "&", "t=2">>,
      <<"https://", "instagram.com", "/", "p", "?", "igsh=3">>,
      <<"https://", "example.com", "/", "watch">> }

----------------------------------------------------------------------------
(* Membership check of utils.py.  The chat API's answer is an input:       *)
(* a member status, or the exception the call raised.                      *)

ChannelTargets == {"none", "id", "@username"}
MemberStatuses == {"member", "administrator", "creator", "subscriber"}
ApiErrors == {"TelegramForbiddenError", "TelegramBadRequest", "TelegramNetworkError",
              "Exception"}
ApiAnswers == MemberStatuses \cup {"left", "kicked"} \cup ApiErrors

\* isinstance(exc, cls) for the except clauses: every API error is an Exception
IsInstance(exc, cls) == exc = cls \/ cls = "Exception"

\* the except clauses of is_member without the last one
ExceptClauses_NoCatchAll == {"TelegramForbiddenError", "TelegramBadRequest"}

\* the except clauses of is_member's outer try
ExceptClauses == {"TelegramForbiddenError", "TelegramBadRequest", "Exception"}

(* is_member: "True" or "False" for what it returns, or the name of the    *)
(* exception that leaves it.  resolved: whether bot.get_chat(channel)      *)
(* answered (asked for a username only); answer: what get_chat_member      *)
(* answered, a status or the exception it raised.                          *)
is_member(channel, resolved, answer) ==
    IF channel = "none" THEN "False"
    ELSE IF channel = "@username" /\ ~resolved THEN "False"
    ELSE IF answer \in ApiErrors
    THEN IF \E cls \in ExceptClauses : IsInstance(answer, cls) THEN "False" ELSE answer
    ELSE IF answer \in MemberStatuses THEN "True" ELSE "False"

\* CHANNEL_TARGET once main() has started polling: never None
RunningTargets == {"id", "@username"}

\* What a membership check meets: CHANNEL_TARGET, whether get_chat resolves a
\* username, and what get_chat_member answers
Apis ==
    {a \in [channel : ChannelTargets, resolved : BOOLEAN, answer : ApiAnswers] :
        a.resolved => a.channel = "@username"}

\* The channel and the API's behaviour left open: every answer can come
AnyApi == [channel |-> "any", resolved |-> FALSE, answer |-> "any"]

\* What is_member can answer a handler, over all the chat API can do
MemberOutcomes ==
    {is_member(c, resolved, a) : c \in RunningTargets, resolved \in BOOLEAN, a \in ApiAnswers}

----------------------------------------------------------------------------
(* Texts shown on the progress message, as <<kind, percent, downloaded,    *)
(* total, detail>>; percent is in tenths, as "{percent:.1f}" prints it.    *)

Text(kind) == <<kind, 0, 0, 0, "">>
TextWith(kind, detail) == <<kind, 0, 0, 0, detail>>

\* human_readable_size keeps byte counts below 1024 apart: "<n>.00 B"
human_readable_size(n) == n

\* round(downloaded / total * 100, 1), in tenths
Percent(downloaded, total) == (downloaded * 2000 + total) \div (2 * total)

ProgressText(downloaded, total) ==
    <<"progress", Percent(downloaded, total),
      human_readable_size(downloaded), human_readable_size(total), "">>

NoText == Text("none")
Deleted == Text("deleted")

\* The failure text of handle_download_callback for each way the request fails
FailureText(kind, detail) ==
    CASE kind = "UnsupportedURLError" -> Text("unsupported")
      [] kind = "FileTooLargeError" -> TextWith("too_large", detail)
      [] kind = "DownloadFailedError" -> TextWith("download_failed", detail)
      [] kind = "send" -> Text("send_failed")
      [] OTHER -> Text("unexpected")

----------------------------------------------------------------------------
(* Results of download_video: a DownloadResult (kind "ok") or the raised   *)
(* exception with str(exc) as detail.                                      *)

NoResult == [kind |-> "none", size |-> 0, detail |-> ""]
Ok(size) == [kind |-> "ok", size |-> size, detail |-> ""]
Raised(kind, detail) == [kind |-> kind, size |-> 0, detail |-> detail]

\* What a call of the fetch library can raise by itself, as str(exc)
LibraryErrors == {"DownloadError: network"}

\* a bare "except Exception" that wraps whatever was raised
Reraise_WrapsAll(exc) == Raised("DownloadFailedError", exc[2])

\* The except clauses of download_video: exc is <<type, str(exc)>>
Reraise(exc) ==
    IF exc[1] = "FileTooLargeError" THEN Raised("FileTooLargeError", exc[2])
    ELSE IF exc[1] = "UnsupportedURLError" THEN Raised("UnsupportedURLError", exc[2])
    ELSE Raised("DownloadFailedError", exc[2])

----------------------------------------------------------------------------
VARIABLES
    call,         \* a function called directly: its name, arguments and outcome
    api,          \* what the membership check meets: channel and API answer
    now,          \* the clock, in ticks
    url_cache,    \* _url_cache: key -> URL
    url_counter,  \* _url_counter
    last_reply,   \* what the last handled link message was answered with
    hpc,          \* per request: where handle_download_callback is
    req,          \* per request: the callback's user, key and resolved URL
    steps,        \* per request: the user-visible steps, in order
    tmp_dir,      \* per request: <<user id, int(time.time())>>, <<>> before
    wpc,          \* per request: where download_video is
    lib,          \* per request: the calls made on the fetch library
    result,       \* per request: what download_video returned or raised
    raised,       \* per request: the exception raised inside its try block
    dirs,         \* the directories that exist under settings.download_path
    files,        \* the directories that hold an output file
    last_update,  \* per request: last_update["ts"]
    tasks,        \* per request: throttled_edit tasks scheduled, not yet run
    inflight,     \* per request: progress edits sent, not yet answered
    msg,          \* per request: the text the progress message shows
    last_render,  \* per request: when throttled_edit last called edit_text
    nrenders,     \* per request: how often throttled_edit called edit_text
    nevents,      \* progress events fired so far
    delivered     \* per request: size of the file sent to the user, -1 if none

vars == <<call, api, now, url_cache, url_counter, last_reply, hpc, req, steps, tmp_dir, wpc,
          lib, result, raised, dirs, files, last_update, tasks, inflight, msg,
          last_render, nrenders, nevents, delivered>>

envVars == <<call, api>>
cacheVars == <<url_cache, url_counter, last_reply>>
workerVars == <<wpc, lib, result, raised, nevents>>
fsVars == <<dirs, files>>
progressVars == <<last_update, tasks, inflight, last_render, nrenders>>
handlerVars == <<hpc, req, steps, tmp_dir, msg, delivered>>

NoRender == -1

\* made: mkdir ran; constructed: YoutubeDL(opts) ran; meta, transfer: the calls of
\* extract_info without and with download; est: the estimate; size: the derived size
NoLib == [made |-> FALSE, constructed |-> FALSE, meta |-> 0, transfer |-> 0,
          est |-> 0, size |-> -1]

NoException == <<"none", "">>

\* No function is called directly
NoCall == [fn |-> "none", args |-> <<>>, done |-> FALSE, ret |-> <<>>]

\* fn is to be called with args
Pending(fn, args) == [fn |-> fn, args |-> args, done |-> FALSE, ret |-> <<>>]

\* What a link message led to: whether its normalized URL matched the
\* allow-list, what is_member answered ("not asked" if it was not called),
\* and the answer sent
Reply(supported, member, sent) ==
    [supported |-> supported, member |-> member, sent |-> sent]

NoReply == Reply(FALSE, "not asked", "none")

Init ==
    /\ call = NoCall
    /\ api = AnyApi
    /\ now = ThrottleTicks
    /\ url_cache = <<>>
    /\ url_counter = 0
    /\ last_reply = NoReply
    /\ hpc = [r \in Requests |-> "idle"]
    /\ req = [r \in Requests |-> [user |-> 0, key |-> 0, url |-> <<>>]]
    /\ steps = [r \in Requests |-> <<>>]
    /\ tmp_dir = [r \in Requests |-> <<>>]
    /\ wpc = [r \in Requests |-> "none"]
    /\ lib = [r \in Requests |-> NoLib]
    /\ result = [r \in Requests |-> NoResult]
    /\ raised = [r \in Requests |-> NoException]
    /\ dirs = {}
    /\ files = {}
    /\ last_update = [r \in Requests |-> 0]
    /\ tasks = [r \in Requests |-> <<>>]
    /\ inflight = [r \in Requests |-> {}]
    /\ msg = [r \in Requests |-> NoText]
    /\ last_render = [r \in Requests |-> NoRender]
    /\ nrenders = [r \in Requests |-> 0]
    /\ nevents = 0
    /\ delivered = [r \in Requests |-> -1]

----------------------------------------------------------------------------
(* The URL cache *)

\* the counter left as it is: the key of the last entry is issued again
store_url_counter_Stuck(counter) == IF counter = 0 THEN 1 ELSE counter

\* _store_url: the new counter, the new cache; the key is the new counter
store_url_counter(counter) == counter + 1

store_url_cache(cache, counter, url) ==
    LET key == store_url_counter(counter)
    IN  [k \in (DOMAIN cache) \cup {key} |-> IF k = key THEN url ELSE cache[k]]

\* _get_url: <<>> stands for None
get_url(cache, key) == IF key \in DOMAIN cache THEN cache[key] ELSE <<>>

\* What is_member answers a handler now
Answers ==
    IF api = AnyApi THEN MemberOutcomes
    ELSE {is_member(api.channel, api.resolved, api.answer)}

\* prompt_for_quality with the membership check before the classification
Link_GateFirst ==
    \E url \in LinkURLs, member \in Answers :
        LET clean_url == sanitize_url(url)
            supported == SUPPORTED_DOMAINS(clean_url)
        IN  /\ url_counter < MaxLinks
            /\ IF member = "False"
               THEN /\ last_reply' = Reply(supported, member, "gate")
                    /\ UNCHANGED <<url_cache, url_counter>>
               ELSE IF ~supported
               THEN /\ last_reply' = Reply(supported, member, "unsupported")
                    /\ UNCHANGED <<url_cache, url_counter>>
               ELSE /\ url_cache' = store_url_cache(url_cache, url_counter, clean_url)
                    /\ url_counter' = store_url_counter(url_counter)
                    /\ last_reply' = Reply(supported, member, "keyboard")
            /\ UNCHANGED <<envVars, now, handlerVars, workerVars, fsVars, progressVars>>

\* quality_keyboard built, and the URL stored, before the URL is classified
\* and the membership checked
Link_StoreFirst ==
    \E url \in LinkURLs, member \in Answers :
        LET clean_url == sanitize_url(url)
            supported == SUPPORTED_DOMAINS(clean_url)
        IN  /\ url_counter < MaxLinks
            /\ url_cache' = store_url_cache(url_cache, url_counter, clean_url)
            /\ url_counter' = store_url_counter(url_counter)
            /\ last_reply' =
                  IF ~supported THEN Reply(supported, "not asked", "unsupported")
                  ELSE IF member = "False" THEN Reply(supported, member, "gate")
                  ELSE Reply(supported, member, "keyboard")
            /\ UNCHANGED <<envVars, now, handlerVars, workerVars, fsVars, progressVars>>

(* handle_any_message / handle_download_command with a link in the message: *)
(* prompt_for_quality, then the best-effort deletion of the user's message, *)
(* which changes nothing in the model whether it raises or not.  An         *)
(* exception leaving is_member would leave the handler with no answer sent. *)
(* limit: how many links reach quality_keyboard in one run.                 *)
LinkUpTo(limit) ==
    \E url \in LinkURLs, member \in Answers :
        LET clean_url == sanitize_url(url)
            supported == SUPPORTED_DOMAINS(clean_url)
        IN  /\ url_counter < limit
            /\ IF ~supported
               THEN /\ last_reply' = Reply(supported, "not asked", "unsupported")
                    /\ UNCHANGED <<url_cache, url_counter>>
               ELSE IF member = "False"
               THEN /\ last_reply' = Reply(supported, member, "gate")
                    /\ UNCHANGED <<url_cache, url_counter>>
               ELSE IF member = "True"
               THEN /\ url_cache' = store_url_cache(url_cache, url_counter, clean_url)
                    /\ url_counter' = store_url_counter(url_counter)
                    /\ last_reply' = Reply(supported, member, "keyboard")
               ELSE /\ last_reply' = Reply(supported, member, "none")
                    /\ UNCHANGED <<url_cache, url_counter>>
            /\ UNCHANGED <<envVars, now, handlerVars, workerVars, fsVars, progressVars>>

Link == LinkUpTo(MaxLinks)

----------------------------------------------------------------------------
(* handle_download_callback, up to the dispatch of download_video          *)

\* settings.download_path / f"dl_{user_id}_{int(time.time())}"
TmpDirName(user, clock) == <<user, clock \div TicksPerSecond>>

\* Users are numbered in the order of their first callback
NextUsers ==
    LET seen == {req[r].user : r \in Requests}
    IN  {u \in Users : u = 1 \/ (u - 1) \in seen}

\* the key not looked at: the handler goes on with whatever _get_url gave
Select_NoStaleCheck(r) ==
    /\ hpc[r] = "idle"
    /\ IF r = 1 THEN TRUE ELSE hpc[r - 1] # "idle"
    /\ \E user \in NextUsers, key \in Keys :
          /\ req' = [req EXCEPT ![r] = [user |-> user, key |-> key,
                                        url |-> get_url(url_cache, key)]]
          /\ hpc' = [hpc EXCEPT ![r] = "selected"]
          /\ steps' = [steps EXCEPT ![r] = Append(@, "selection")]
    /\ UNCHANGED <<envVars, now, cacheVars, tmp_dir, msg, delivered, workerVars, fsVars, progressVars>>

(* lines 174-192: the payload is split, the key resolved, the selection   *)
(* shown in place of the keyboard (a failed edit is swallowed).  The       *)
(* callback's key comes from a keyboard the user was shown, in this run or *)
(* an earlier one: any key.  Request slots are taken in order of arrival.  *)
Select(r) ==
    /\ hpc[r] = "idle"
    /\ IF r = 1 THEN TRUE ELSE hpc[r - 1] # "idle"
    /\ \E user \in NextUsers, key \in Keys :
          LET url == get_url(url_cache, key)
          IN  /\ req' = [req EXCEPT ![r] = [user |-> user, key |-> key, url |-> url]]
              /\ IF url = <<>>
                 THEN \* "Link eskirgan": alert and return
                      /\ hpc' = [hpc EXCEPT ![r] = "stale"]
                      /\ steps' = [steps EXCEPT ![r] = Append(@, "stale_alert")]
                 ELSE /\ hpc' = [hpc EXCEPT ![r] = "selected"]
                      /\ steps' = [steps EXCEPT ![r] = Append(@, "selection")]
    /\ UNCHANGED <<envVars, now, cacheVars, tmp_dir, msg, delivered, workerVars, fsVars, progressVars>>

\* the membership check made, its answer ignored
CheckMember_Ignored(r) ==
    /\ hpc[r] = "selected"
    /\ \E member \in Answers :
          /\ hpc' = [hpc EXCEPT ![r] = "member"]
          /\ steps' = [steps EXCEPT ![r] =
                         Append(@, IF member = "True" THEN "member_true" ELSE "member_false")]
    /\ UNCHANGED <<envVars, now, cacheVars, req, tmp_dir, msg, delivered, workerVars, fsVars, progressVars>>

\* lines 195-198: the membership check and, for a non-member, CHANNEL_PROMPT
CheckMember(r) ==
    /\ hpc[r] = "selected"
    /\ \E member \in Answers :
          IF member = "True"
          THEN /\ hpc' = [hpc EXCEPT ![r] = "member"]
               /\ steps' = [steps EXCEPT ![r] = Append(@, "member_true")]
          ELSE IF member = "False"
          THEN /\ hpc' = [hpc EXCEPT ![r] = "gated"]
               /\ steps' = [steps EXCEPT ![r] = Append(Append(@, "member_false"), "gate")]
          ELSE \* an exception leaving is_member would leave the handler
               /\ hpc' = [hpc EXCEPT ![r] = "crashed"]
               /\ UNCHANGED steps
    /\ UNCHANGED <<envVars, now, cacheVars, req, tmp_dir, msg, delivered, workerVars, fsVars, progressVars>>

(* lines 200-242: the progress message is sent (sent: the call answered),  *)
(* the directory named and download_video handed to the executor.          *)
Dispatch(r) ==
    /\ hpc[r] = "member"
    /\ \E sent \in BOOLEAN :
          IF ~sent
          THEN /\ hpc' = [hpc EXCEPT ![r] = "crashed"]
               /\ UNCHANGED <<steps, msg, tmp_dir, wpc>>
          ELSE /\ hpc' = [hpc EXCEPT ![r] = "fetching"]
               /\ steps' = [steps EXCEPT ![r] = Append(Append(@, "progress"), "dispatch")]
               /\ msg' = [msg EXCEPT ![r] = Text("starting")]
               /\ tmp_dir' = [tmp_dir EXCEPT ![r] = TmpDirName(req[r].user, now)]
               /\ wpc' = [wpc EXCEPT ![r] = "start"]
    /\ UNCHANGED <<envVars, now, cacheVars, req, delivered, lib, result, raised, nevents, fsVars,
                   progressVars>>

----------------------------------------------------------------------------
(* download_video, on the executor thread                                  *)

\* QUALITY_ORDER of bot.py: the labels of the keyboard's buttons
QUALITY_ORDER == <<"360p", "480p", "720p", "1080p", "best", "mp3">>

\* QUALITY_MAP: label -> format selector
QUALITY_MAP ==
    [q \in {"360p", "480p", "720p", "1080p", "best", "mp3"} |->
        CASE q = "360p" ->
               "best[ext=mp4][height<=360][acodec!=none][vcodec!=none]/bestvideo[height<=360]+bestaudio/best"
          [] q = "480p" ->
               "best[ext=mp4][height<=480][acodec!=none][vcodec!=none]/bestvideo[height<=480]+bestaudio/best"
          [] q = "720p" ->
               "best[ext=mp4][height<=720][acodec!=none][vcodec!=none]/bestvideo[height<=720]+bestaudio/best"
          [] q = "1080p" -> "bestvideo[height<=1080]+bestaudio/best"
          [] q = "best" -> "bestvideo+bestaudio/best"
          [] q = "mp3" -> "bestaudio/best"]

\* The third part of a callback's payload: a button's label, or whatever a
\* client puts there
QualityKeys ==
    {QUALITY_ORDER[i] : i \in 1..Len(QUALITY_ORDER)} \cup {"", "144p", "BEST", "MP3", "mp4"}

\* QUALITY_MAP[quality_key]: a label outside the table raises KeyError
FormatSelector_NoDefault(quality_key) ==
    IF quality_key \in DOMAIN QUALITY_MAP THEN QUALITY_MAP[quality_key] ELSE "KeyError"

\* QUALITY_MAP.get(quality_key, QUALITY_MAP["best"])
FormatSelector(quality_key) ==
    IF quality_key \in DOMAIN QUALITY_MAP THEN QUALITY_MAP[quality_key]
    ELSE QUALITY_MAP["best"]

(* _build_opts: the options that depend on its arguments; "" stands for    *)
(* None and for a key the dict does not have, <<>> for no postprocessors.  *)
build_opts(quality_key, user_agent, cookies_path) ==
    LET is_audio == quality_key = "mp3"
    IN  [format |-> FormatSelector(quality_key),
         postprocessors |->
            IF is_audio
            THEN << [key |-> "FFmpegExtractAudio", preferredcodec |-> "mp3",
                     preferredquality |-> "192"] >>
            ELSE <<>>,
         merge_output_format |-> IF is_audio THEN "" ELSE "mp4",
         user_agent |-> user_agent,
         cookiefile |-> cookies_path]

\* Metadata of the first call: the size fields and the formats' sizes
\* (each format as <<filesize, filesize_approx>>)
Formats == { <<>>, << <<0, 0>> >>, << <<1, 0>>, <<0, MaxFileBytes + 1>> >>,
             << <<MaxFileBytes, MaxFileBytes + 1>>, <<0, 1>> >> }
Infos == [filesize : Sizes, filesize_approx : Sizes, formats : Formats]

RECURSIVE MaxOf(_)
MaxOf(sizes) ==
    IF Len(sizes) = 1 THEN sizes[1]
    ELSE LET m == MaxOf(Tail(sizes)) IN IF sizes[1] > m THEN sizes[1] ELSE m

\* f.get("filesize") or f.get("filesize_approx")
FormatSize(f) == IF f[1] # 0 THEN f[1] ELSE f[2]

RECURSIVE FormatSizes(_)
FormatSizes(formats) ==
    IF formats = <<>> THEN <<>>
    ELSE (IF FormatSize(Head(formats)) # 0 THEN <<FormatSize(Head(formats))>> ELSE <<>>)
         \o FormatSizes(Tail(formats))

\* the approximate size looked at before the direct one
estimate_size_ApproxFirst(info) ==
    IF info.filesize_approx # 0 THEN info.filesize_approx
    ELSE IF info.filesize # 0 THEN info.filesize
    ELSE IF FormatSizes(info.formats) # <<>> THEN MaxOf(FormatSizes(info.formats))
    ELSE 0

\* _estimate_size: 0 stands for None
estimate_size(info) ==
    IF info.filesize # 0 THEN info.filesize
    ELSE IF info.filesize_approx # 0 THEN info.filesize_approx
    ELSE IF FormatSizes(info.formats) # <<>> THEN MaxOf(FormatSizes(info.formats))
    ELSE 0

\* The estimates the metadata call can lead to
Estimates == {estimate_size(info) : info \in Infos}

\* the estimate compared with the wrong ceiling
EstimateTooLarge_Lax(est) == est # 0 /\ est > MaxFileBytes + 1

\* the estimate check of download_video
EstimateTooLarge(est) == est # 0 /\ est > MaxFileBytes

\* the final check left out
SizeTooLarge_Never(size) == FALSE

\* the final check of download_video
SizeTooLarge(size) == size > MaxFileBytes

\* download_video returns res or raises it, from outside the try block
Finish(r, res) ==
    /\ result' = [result EXCEPT ![r] = res]
    /\ wpc' = [wpc EXCEPT ![r] = "finished"]
    /\ UNCHANGED raised

\* exc is raised inside the try block and leaves through the except clauses
Fail(r, exc) ==
    /\ result' = [result EXCEPT ![r] = Reraise(exc)]
    /\ raised' = [raised EXCEPT ![r] = exc]
    /\ wpc' = [wpc EXCEPT ![r] = "finished"]

\* the directory made before the URL is looked at
DlStart_MkdirFirst(r) ==
    /\ wpc[r] = "start"
    /\ dirs' = dirs \cup {tmp_dir[r]}
    /\ IF ~SUPPORTED_DOMAINS(req[r].url)
       THEN /\ Finish(r, Raised("UnsupportedURLError", "only youtube and instagram"))
            /\ lib' = [lib EXCEPT ![r].made = TRUE]
       ELSE /\ lib' = [lib EXCEPT ![r].constructed = TRUE, ![r].made = TRUE]
            /\ wpc' = [wpc EXCEPT ![r] = "meta"]
            /\ UNCHANGED <<result, raised>>
    /\ UNCHANGED <<envVars, now, cacheVars, handlerVars, nevents, files, progressVars>>

\* lines 168-177: the allow-list, mkdir, _build_opts, YoutubeDL(opts)
DlStart(r) ==
    /\ wpc[r] = "start"
    /\ IF ~SUPPORTED_DOMAINS(req[r].url)
       THEN /\ Finish(r, Raised("UnsupportedURLError", "only youtube and instagram"))
            /\ UNCHANGED <<lib, dirs>>
       ELSE \E made \in BOOLEAN :
              IF made
              THEN /\ dirs' = dirs \cup {tmp_dir[r]}
                   /\ lib' = [lib EXCEPT ![r].constructed = TRUE, ![r].made = TRUE]
                   /\ wpc' = [wpc EXCEPT ![r] = "meta"]
                   /\ UNCHANGED <<result, raised>>
              ELSE \* mkdir raised, outside the try block
                   /\ Finish(r, Raised("OSError", "mkdir"))
                   /\ UNCHANGED <<lib, dirs>>
    /\ UNCHANGED <<envVars, now, cacheVars, handlerVars, nevents, files, progressVars>>

\* a metadata call that raised is made once more
DlMeta_Retry(r) ==
    /\ wpc[r] = "meta"
    /\ \E err \in LibraryErrors \cup {"none"}, est \in Estimates :
              IF err # "none"
              THEN IF lib[r].meta = 0
                   THEN /\ lib' = [lib EXCEPT ![r].meta = @ + 1]
                        /\ UNCHANGED <<wpc, result, raised>>
                   ELSE /\ Fail(r, <<"Exception", err>>)
                        /\ lib' = [lib EXCEPT ![r].meta = @ + 1]
              ELSE IF EstimateTooLarge(est)
              THEN /\ Fail(r, <<"FileTooLargeError", "estimate">>)
                   /\ lib' = [lib EXCEPT ![r].meta = @ + 1, ![r].est = est]
              ELSE /\ lib' = [lib EXCEPT ![r].meta = @ + 1, ![r].est = est,
                                         ![r].transfer = @ + 1]
                   /\ wpc' = [wpc EXCEPT ![r] = "transfer"]
                   /\ UNCHANGED <<result, raised>>
    /\ UNCHANGED <<envVars, now, cacheVars, handlerVars, nevents, fsVars, progressVars>>

\* lines 178-186: the metadata call, the estimate check, the transfer call made
DlMeta(r) ==
    /\ wpc[r] = "meta"
    /\ \E err \in LibraryErrors \cup {"none"}, est \in Estimates :
              IF err # "none"
              THEN /\ Fail(r, <<"Exception", err>>)
                   /\ lib' = [lib EXCEPT ![r].meta = @ + 1]
              ELSE IF EstimateTooLarge(est)
              THEN /\ Fail(r, <<"FileTooLargeError", "estimate">>)
                   /\ lib' = [lib EXCEPT ![r].meta = @ + 1, ![r].est = est]
              ELSE /\ lib' = [lib EXCEPT ![r].meta = @ + 1, ![r].est = est,
                                         ![r].transfer = @ + 1]
                   /\ wpc' = [wpc EXCEPT ![r] = "transfer"]
                   /\ UNCHANGED <<result, raised>>
    /\ UNCHANGED <<envVars, now, cacheVars, handlerVars, nevents, fsVars, progressVars>>

\* Progress events of the library: 0 stands for an absent field
Events == [status : {"downloading", "finished"},
           total_bytes : {0, MaxFileBytes, MaxFileBytes + 1},
           total_bytes_estimate : {0, MaxFileBytes, MaxFileBytes + 1},
           downloaded_bytes : {0, MaxFileBytes}]

\* d.get("total_bytes") or d.get("total_bytes_estimate")
EventTotal(d) == IF d.total_bytes # 0 THEN d.total_bytes ELSE d.total_bytes_estimate

\* progress_cb of bot.py: the throttled_edit tasks it schedules for event d
progress_cb(d) ==
    IF d.status # "downloading" THEN <<>>
    ELSE IF EventTotal(d) = 0 THEN <<>>
    ELSE <<ProgressText(d.downloaded_bytes, EventTotal(d))>>

\* _hook of _build_opts, after the sink was called: does it abort
HookAborts(d) == EventTotal(d) # 0 /\ EventTotal(d) > MaxFileBytes

\* the ceiling checked before the event is passed on
Hook_CheckFirst(d, sink) ==
    [forwarded |-> IF sink /\ ~HookAborts(d) THEN <<d>> ELSE <<>>,
     raised |-> IF HookAborts(d) THEN <<"FileTooLargeError", "hook">> ELSE NoException]

(* _hook of _build_opts for event d; sink: progress_cb is not None.        *)
(* forwarded: the events passed to progress_cb; raised: what leaves _hook. *)
Hook(d, sink) ==
    [forwarded |-> IF sink THEN <<d>> ELSE <<>>,
     raised |-> IF HookAborts(d) THEN <<"FileTooLargeError", "hook">> ELSE NoException]

(* The library calls the hook for each event in turn until the hook        *)
(* raises.  seen: how many events the hook received.                       *)
RECURSIVE RunHook(_, _)
RunHook(events, sink) ==
    IF events = <<>> THEN [forwarded |-> <<>>, raised |-> NoException, seen |-> 0]
    ELSE LET h == Hook(Head(events), sink)
             rest == RunHook(Tail(events), sink)
         IN  IF h.raised # NoException
             THEN [forwarded |-> h.forwarded, raised |-> h.raised, seen |-> 1]
             ELSE [forwarded |-> h.forwarded \o rest.forwarded, raised |-> rest.raised,
                   seen |-> rest.seen + 1]

\* The tasks progress_cb of bot.py schedules for the events forwarded to it
RECURSIVE SinkTasks(_)
SinkTasks(events) ==
    IF events = <<>> THEN <<>> ELSE progress_cb(Head(events)) \o SinkTasks(Tail(events))

\* What an event does: the tasks the sink schedules, and whether the hook aborts
EventEffects ==
    {<<SinkTasks(Hook(d, TRUE).forwarded), Hook(d, TRUE).raised # NoException>> : d \in Events}

(* One progress event during the transfer: the library has begun to write  *)
(* the output file, calls the hook, and the hook's FileTooLargeError       *)
(* leaves the library and download_video unchanged.                        *)
DlEvent(r) ==
    /\ wpc[r] = "transfer"
    /\ nevents < MaxEvents
    /\ \E e \in EventEffects :
          /\ tasks' = [tasks EXCEPT ![r] = @ \o e[1]]
          /\ IF e[2]
             THEN Fail(r, <<"FileTooLargeError", "hook">>)
             ELSE UNCHANGED <<wpc, result, raised>>
    /\ nevents' = nevents + 1
    /\ dirs' = dirs \cup {tmp_dir[r]}
    /\ files' = files \cup {tmp_dir[r]}
    /\ UNCHANGED <<envVars, now, cacheVars, handlerVars, lib, last_update, inflight, last_render, nrenders>>

\* the size on disk preferred to the size the library reports
ResultSize_DiskFirst(shape, reported, ondisk) ==
    IF ondisk # -1 THEN ondisk ELSE reported

\* lines 187-197: the size of the result; -1 stands for stat() raising
ResultSize(shape, reported, ondisk) ==
    IF shape = "requested_downloads" /\ reported # 0 THEN reported ELSE ondisk

\* File paths as <<directory, stem, suffix>>
Paths == { <<"dl", "video", "mp4">>, <<"dl", "video", "mp3">> }
Stem(path) == path[2]
Suffix(path) == path[3]

\* What the transfer call returns: with "requested_downloads" the fields of
\* its first entry, without it only the title ("" and 0 stand for absent or
\* empty); filepath is then what prepare_filename gives
Titles == {"", "Sample"}
Exts == {"", "mp4", "mp3"}
TransferInfos ==
    [shape : {"requested_downloads"}, filepath : Paths, filesize : Sizes,
     title : Titles, ext : Exts, info_title : {"", "Info"}]
    \cup
    [shape : {"implied"}, filepath : Paths, filesize : {0},
     title : {""}, ext : {""}, info_title : {"", "Info"}]

\* lines 191 and 196: the title of the result
ResultTitle(info) ==
    IF info.shape = "requested_downloads" /\ info.title # "" THEN info.title
    ELSE IF info.info_title # "" THEN info.info_title
    ELSE Stem(info.filepath)

\* lines 192 and 197: the extension of the result
ResultExt(info) ==
    IF info.shape = "requested_downloads" /\ info.ext # "" THEN info.ext
    ELSE Suffix(info.filepath)

DownloadResult(file_path, title, ext, size) ==
    [kind |-> "ok", file_path |-> file_path, title |-> title, ext |-> ext, size |-> size]

(* lines 187-210: what download_video makes of the transfer call's answer  *)
(* info when the output file has ondisk bytes (-1: there is no such file). *)
ResultOf(info, ondisk) ==
    LET size == ResultSize(info.shape, info.filesize, ondisk)
    IN  IF size = -1 THEN Reraise(<<"FileNotFoundError", "No such file">>)
        ELSE IF SizeTooLarge(size) THEN Reraise(<<"FileTooLargeError", "final">>)
        ELSE DownloadResult(info.filepath, ResultTitle(info), ResultExt(info), size)

\* The size download_video derives, with whether a file is on disk (-1: none)
TransferOutcomes ==
    {<<ResultSize(shape, reported, ondisk), IF ondisk = -1 THEN -1 ELSE 0>> :
        shape \in {"requested_downloads", "implied"}, reported \in Sizes,
        ondisk \in Sizes \cup {-1}}

(* lines 186-204: the transfer call returns or raises.  reported is the    *)
(* library's filesize, ondisk the size of the output file, -1 if there is  *)
(* no file at the path the library names.                                  *)
DlTransfer(r) ==
    /\ wpc[r] = "transfer"
    /\ \E err \in LibraryErrors \cup {"none"}, out \in TransferOutcomes :
          LET size == out[1]
              ondisk == out[2]
          IN  /\ IF err # "none"
                 THEN Fail(r, <<"Exception", err>>) /\ UNCHANGED lib
                 ELSE IF size = -1
                 THEN Fail(r, <<"FileNotFoundError", "No such file">>) /\ UNCHANGED lib
                 ELSE IF SizeTooLarge(size)
                 THEN Fail(r, <<"FileTooLargeError", "final">>)
                      /\ lib' = [lib EXCEPT ![r].size = size]
                 ELSE Finish(r, Ok(size))
                      /\ lib' = [lib EXCEPT ![r].size = size]
              /\ IF err = "none" /\ ondisk # -1
                 THEN /\ dirs' = dirs \cup {tmp_dir[r]}
                      /\ files' = files \cup {tmp_dir[r]}
                 ELSE UNCHANGED fsVars
    /\ UNCHANGED <<envVars, now, cacheVars, handlerVars, nevents, progressVars>>

----------------------------------------------------------------------------
(* The progress throttle, on the event loop                                *)

\* a throttle of 1.0 s
Throttled_Short(clock, ts) == clock - ts < ThrottleTicks - 1

\* the guard of throttled_edit: the update is dropped
Throttled(clock, ts) == clock - ts < ThrottleTicks

(* The first step of the oldest scheduled throttled_edit task: up to the   *)
(* await of progress_msg.edit_text.                                        *)
ThrottledEdit(r) ==
    /\ tasks[r] # <<>>
    /\ tasks' = [tasks EXCEPT ![r] = Tail(@)]
    /\ IF Throttled(now, last_update[r])
       THEN UNCHANGED <<last_update, last_render, nrenders, inflight>>
       ELSE /\ last_update' = [last_update EXCEPT ![r] = now]
            /\ last_render' = [last_render EXCEPT ![r] = now]
            /\ nrenders' = [nrenders EXCEPT ![r] = @ + 1]
            /\ inflight' = [inflight EXCEPT ![r] = @ \cup {Head(tasks[r])}]
    /\ UNCHANGED <<envVars, now, cacheVars, handlerVars, workerVars, fsVars>>

(* The chat answers a progress edit: the message changes, or edit_text     *)
(* raises and throttled_edit swallows it.  A deleted message and an        *)
(* unchanged text are always refused.                                      *)
EditAnswered(r) ==
    \E text \in inflight[r], accepted \in BOOLEAN :
        /\ inflight' = [inflight EXCEPT ![r] = @ \ {text}]
        /\ IF accepted /\ msg[r] # Deleted /\ msg[r] # text
           THEN msg' = [msg EXCEPT ![r] = text]
           ELSE UNCHANGED msg
        /\ UNCHANGED <<envVars, now, cacheVars, hpc, req, steps, tmp_dir, delivered, workerVars,
                       fsVars, last_update, tasks, last_render, nrenders>>

----------------------------------------------------------------------------
(* handle_download_callback, after download_video                          *)

\* safe_remove(tmp_dir): the directory and what it holds are gone
safe_remove_dirs(existing, dir) == existing \ {dir}

Cleanup(r) ==
    /\ dirs' = safe_remove_dirs(dirs, tmp_dir[r])
    /\ files' = safe_remove_dirs(files, tmp_dir[r])

(* The awaited run_blocking raised: lines 243-260.  The handler is resumed *)
(* after every throttled_edit task scheduled by the worker has run its     *)
(* first step (the loop's ready queue is first in, first out).             *)
HandleFailure(r) ==
    /\ hpc[r] = "fetching"
    /\ wpc[r] = "finished"
    /\ tasks[r] = <<>>
    /\ result[r].kind # "ok"
    /\ \E edited \in BOOLEAN :
          IF edited
          THEN /\ msg' = [msg EXCEPT ![r] = FailureText(result[r].kind, result[r].detail)]
               /\ Cleanup(r)
               /\ hpc' = [hpc EXCEPT ![r] = "done"]
          ELSE \* progress_msg.edit_text raised inside the except clause
               /\ hpc' = [hpc EXCEPT ![r] = "crashed"]
               /\ UNCHANGED <<msg, fsVars>>
    /\ UNCHANGED <<envVars, now, cacheVars, req, steps, tmp_dir, delivered, workerVars, progressVars>>

(* download_video returned: lines 262-281.  limited, sent, deleted and     *)
(* edited are the outcomes of the edit_text of the size check, of          *)
(* send_video / send_audio, of progress_msg.delete and of the edit_text of *)
(* the except clause; the finally clause removes the directory.            *)
HandleResult(r) ==
    /\ hpc[r] = "fetching"
    /\ wpc[r] = "finished"
    /\ tasks[r] = <<>>
    /\ result[r].kind = "ok"
    /\ \E limited \in BOOLEAN, sent \in BOOLEAN, deleted \in BOOLEAN, edited \in BOOLEAN :
          /\ IF result[r].size > MaxFileBytes
             THEN /\ msg' = [msg EXCEPT ![r] =
                               IF limited THEN Text("telegram_limit")
                               ELSE IF edited THEN FailureText("send", "") ELSE @]
                  /\ hpc' = [hpc EXCEPT ![r] = IF limited \/ edited THEN "done" ELSE "crashed"]
                  /\ UNCHANGED delivered
             ELSE /\ delivered' = [delivered EXCEPT ![r] = IF sent THEN result[r].size ELSE @]
                  /\ msg' = [msg EXCEPT ![r] =
                               IF sent /\ deleted THEN Deleted
                               ELSE IF edited THEN FailureText("send", "") ELSE @]
                  /\ hpc' = [hpc EXCEPT ![r] =
                               IF (sent /\ deleted) \/ edited THEN "done" ELSE "crashed"]
          /\ Cleanup(r)
    /\ UNCHANGED <<envVars, now, cacheVars, req, steps, tmp_dir, workerVars, progressVars>>

----------------------------------------------------------------------------
\* Time passes while a request among rs can still read the clock
Tick(rs) ==
    /\ now < MaxClock
    /\ \E r \in rs : hpc[r] \in {"idle", "selected", "member", "fetching"}
    /\ now' = now + 1
    /\ UNCHANGED <<envVars, cacheVars, handlerVars, workerVars, fsVars, progressVars>>

\* The handler and the worker of request r
Handle(r) ==
    \/ Select(r)
    \/ CheckMember(r)
    \/ Dispatch(r)
    \/ DlStart(r)
    \/ DlMeta(r)
    \/ DlTransfer(r)
    \/ HandleFailure(r)
    \/ HandleResult(r)

\* The progress events of request r and what becomes of them
Progress(r) ==
    \/ DlEvent(r)
    \/ ThrottledEdit(r)
    \/ EditAnswered(r)

(* Spec: links, and one selection callback followed through its fetch,     *)
(* its progress events and its delivery.  Requests meet only in the URL    *)
(* cache and in the download directory.                                    *)
Next ==
    \/ Link
    \/ Tick({1})
    \/ Handle(1)
    \/ Progress(1)

Spec == Init /\ [][Next]_vars

(* SpecConcurrent: NumRequests selection callbacks in flight together,     *)
(* with a library that fires no progress events.                           *)
NextConcurrent ==
    \/ Link
    \/ Tick(Requests)
    \/ \E r \in Requests : Handle(r)

SpecConcurrent == Init /\ [][NextConcurrent]_vars

(* SpecMember: one selection callback with a library that fires no         *)
(* progress events, the channel and the chat API's behaviour tracked: the  *)
(* handlers are driven with every CHANNEL_TARGET is_member accepts.        *)
InitMember ==
    /\ call = NoCall
    /\ api \in Apis
    /\ now = ThrottleTicks
    /\ url_cache = <<>>
    /\ url_counter = 0
    /\ last_reply = NoReply
    /\ hpc = [r \in Requests |-> "idle"]
    /\ req = [r \in Requests |-> [user |-> 0, key |-> 0, url |-> <<>>]]
    /\ steps = [r \in Requests |-> <<>>]
    /\ tmp_dir = [r \in Requests |-> <<>>]
    /\ wpc = [r \in Requests |-> "none"]
    /\ lib = [r \in Requests |-> NoLib]
    /\ result = [r \in Requests |-> NoResult]
    /\ raised = [r \in Requests |-> NoException]
    /\ dirs = {}
    /\ files = {}
    /\ last_update = [r \in Requests |-> 0]
    /\ tasks = [r \in Requests |-> <<>>]
    /\ inflight = [r \in Requests |-> {}]
    /\ msg = [r \in Requests |-> NoText]
    /\ last_render = [r \in Requests |-> NoRender]
    /\ nrenders = [r \in Requests |-> 0]
    /\ nevents = 0
    /\ delivered = [r \in Requests |-> -1]

\* The user joins or leaves the channel, the API starts or stops failing
ApiChanges ==
    /\ api # AnyApi
    /\ \E a \in Apis : a # api /\ api' = a
    /\ UNCHANGED <<call, now, cacheVars, handlerVars, workerVars, fsVars, progressVars>>

NextMember ==
    \/ ApiChanges
    \/ Link
    \/ Handle(1)

SpecMember == InitMember /\ [][NextMember]_vars

(* SpecLinks: up to MaxStores links stored, with selection callbacks       *)
(* arriving in between and looking their keys up.                          *)
NextLinks ==
    \/ LinkUpTo(MaxStores)
    \/ \E r \in Requests : Select(r)

SpecLinks == Init /\ [][NextLinks]_vars

(* SpecDirect: download_video called directly, as the tests call it, with  *)
(* any URL and a progress sink that schedules the tasks.                   *)
DirectURLs ==
    LinkURLs \cup
    { <<"HTTPS://", "m.", "YOUTUBE.COM", "/", "watch">>,
      <<"http://", "youtu.be", "/", "watch">>,
      <<"https://", "www.", "instagr.am", "/", "p">>,
      <<"https://", "youtube.com">>,
      <<"https://", "youtube.com", "?", "v=1">>,
      <<"ftp://", "youtube.com", "/", "watch">>,
      <<" ", "https://", "youtube.com", "/", "watch">>,
      <<"https://", "www.", "m.", "youtube.com", "/">>,
      <<"https://", "example.com", "/", "youtube.com", "/", "watch">>,
      <<"youtube.com", "/", "watch">> }

InitDirect ==
    /\ call = NoCall
    /\ api = AnyApi
    /\ now = ThrottleTicks
    /\ url_cache = <<>>
    /\ url_counter = 0
    /\ last_reply = NoReply
    /\ hpc = [r \in Requests |-> IF r = 1 THEN "direct" ELSE "idle"]
    /\ \E url \in DirectURLs :
          req = [r \in Requests |-> [user |-> 0, key |-> 0, url |-> IF r = 1 THEN url ELSE <<>>]]
    /\ steps = [r \in Requests |-> <<>>]
    /\ tmp_dir = [r \in Requests |-> IF r = 1 THEN TmpDirName(1, now) ELSE <<>>]
    /\ wpc = [r \in Requests |-> IF r = 1 THEN "start" ELSE "none"]
    /\ lib = [r \in Requests |-> NoLib]
    /\ result = [r \in Requests |-> NoResult]
    /\ raised = [r \in Requests |-> NoException]
    /\ dirs = {}
    /\ files = {}
    /\ last_update = [r \in Requests |-> 0]
    /\ tasks = [r \in Requests |-> <<>>]
    /\ inflight = [r \in Requests |-> {}]
    /\ msg = [r \in Requests |-> NoText]
    /\ last_render = [r \in Requests |-> NoRender]
    /\ nrenders = [r \in Requests |-> 0]
    /\ nevents = 0
    /\ delivered = [r \in Requests |-> -1]

NextDirect ==
    \/ DlStart(1)
    \/ DlMeta(1)
    \/ DlEvent(1)
    \/ DlTransfer(1)

SpecDirect == InitDirect /\ [][NextDirect]_vars

----------------------------------------------------------------------------
(* SpecCalls: the functions of the program called directly, each with      *)
(* every argument of a bounded set.                                        *)

\* the tail of download_video applied to a transfer answer
ResultCalls ==
    {Pending("download_video.result", <<info, ondisk>>) :
        info \in TransferInfos, ondisk \in Sizes \cup {-1}}

CallResult ==
    /\ call.fn = "download_video.result" /\ ~call.done
    /\ call' = [call EXCEPT !.done = TRUE, !.ret = ResultOf(call.args[1], call.args[2])]
    /\ UNCHANGED <<api, now, cacheVars, handlerVars, workerVars, fsVars, progressVars>>

\* _build_opts with every label, with and without user agent and cookies
OptsCalls ==
    {Pending("_build_opts", <<q, ua, cookies>>) :
        q \in QualityKeys, ua \in {"", "Mozilla/5.0"}, cookies \in {"", "cookies.txt"}}

CallBuildOpts ==
    /\ call.fn = "_build_opts" /\ ~call.done
    /\ call' = [call EXCEPT !.done = TRUE,
                            !.ret = build_opts(call.args[1], call.args[2], call.args[3])]
    /\ UNCHANGED <<api, now, cacheVars, handlerVars, workerVars, fsVars, progressVars>>

(* The texts that reach sanitize_url: what extract_url_from_message finds  *)
(* in a message, or whatever follows "/download", which can hold blanks.   *)
UrlHeads ==
    { <<"https://", "youtube.com", "/", "watch">>,
      <<"http://", "m.", "youtu.be", "/", "watch">>,
      <<"HTTPS://", "www.", "YOUTUBE.COM", "/", "watch">>,
      <<"https://", "www.", "instagram.com", "/", "p">>,
      <<"https://", "instagr.am", "/", "p">>,
      <<"https://", "example.com", "/", "watch">>,
      <<"https://", "example.com", "/", "youtube.com", "/", "watch">> }

UrlTails ==
    { <<>>,
      <<"?", "v=1">>,
      <<"?", "v=1", "&", "t=2">>,
      <<"&", "t=2", "?", "v=1">>,
      <<"?", "igsh=3">>,
      <<"?", "v=1", " ", "&", "t=2">>,
      <<" ", "?", "igsh=3">>,
      <<"?", "v=1", "&", "instagram.com", "?", "igsh=3">> }

Pads == {<<>>, <<" ">>}

SanitizeURLs ==
    DirectURLs \cup
    {pre \o head \o tail \o post :
        pre \in Pads, head \in UrlHeads, tail \in UrlTails, post \in Pads}

SanitizeCalls == {Pending("sanitize_url", <<url>>) : url \in SanitizeURLs}

CallSanitize ==
    /\ call.fn = "sanitize_url" /\ ~call.done
    /\ call' = [call EXCEPT !.done = TRUE, !.ret = sanitize_url(call.args[1])]
    /\ UNCHANGED <<api, now, cacheVars, handlerVars, workerVars, fsVars, progressVars>>

\* the hook driven with every run of up to MaxEvents events, with a progress
\* sink and, as the tests call download_video, without one
HookCalls ==
    {Pending("_hook", <<events, sink>>) :
        events \in UNION {[1..n -> Events] : n \in 1..MaxEvents}, sink \in BOOLEAN}

CallHook ==
    /\ call.fn = "_hook" /\ ~call.done
    /\ call' = [call EXCEPT !.done = TRUE, !.ret = RunHook(call.args[1], call.args[2])]
    /\ UNCHANGED <<api, now, cacheVars, handlerVars, workerVars, fsVars, progressVars>>

\* lines 178-186 of download_video on every metadata of Infos: the estimate,
\* and whether the estimate check raised or the transfer call was made
EstimateCalls == {Pending("download_video.estimate", <<info>>) : info \in Infos}

CallEstimate ==
    /\ call.fn = "download_video.estimate" /\ ~call.done
    /\ LET est_size == estimate_size(call.args[1])
       IN  call' = [call EXCEPT !.done = TRUE,
                                !.ret = <<est_size,
                                          IF EstimateTooLarge(est_size)
                                          THEN "FileTooLargeError" ELSE "transfer">>]
    /\ UNCHANGED <<api, now, cacheVars, handlerVars, workerVars, fsVars, progressVars>>

Calls == ResultCalls \cup OptsCalls \cup SanitizeCalls \cup HookCalls \cup EstimateCalls

InitCalls ==
    /\ call \in Calls
    /\ api = AnyApi
    /\ now = ThrottleTicks
    /\ url_cache = <<>>
    /\ url_counter = 0
    /\ last_reply = NoReply
    /\ hpc = [r \in Requests |-> "idle"]
    /\ req = [r \in Requests |-> [user |-> 0, key |-> 0, url |-> <<>>]]
    /\ steps = [r \in Requests |-> <<>>]
    /\ tmp_dir = [r \in Requests |-> <<>>]
    /\ wpc = [r \in Requests |-> "none"]
    /\ lib = [r \in Requests |-> NoLib]
    /\ result = [r \in Requests |-> NoResult]
    /\ raised = [r \in Requests |-> NoException]
    /\ dirs = {}
    /\ files = {}
    /\ last_update = [r \in Requests |-> 0]
    /\ tasks = [r \in Requests |-> <<>>]
    /\ inflight = [r \in Requests |-> {}]
    /\ msg = [r \in Requests |-> NoText]
    /\ last_render = [r \in Requests |-> NoRender]
    /\ nrenders = [r \in Requests |-> 0]
    /\ nevents = 0
    /\ delivered = [r \in Requests |-> -1]

NextCalls ==
    \/ CallResult
    \/ CallBuildOpts
    \/ CallSanitize
    \/ CallHook
    \/ CallEstimate

SpecCalls == InitCalls /\ [][NextCalls]_vars

----------------------------------------------------------------------------
(* The claims *)

Range(seq) == {seq[i] : i \in 1..Len(seq)}

\* every b in seq has an a somewhere before it
Before(seq, a, b) ==
    \A i \in 1..Len(seq) : seq[i] = b => \E j \in 1..(i - 1) : seq[j] = a

Dispatched(r) == "dispatch" \in Range(steps[r])
Returned(r) == hpc[r] \in {"done", "crashed"}

(* C1: for every callback that dispatched download_video, the request's    *)
(* temp directory does not exist once handle_download_callback has         *)
(* finished, on every exit path and whether the chat calls made on that    *)
(* path succeed or raise.                                                  *)
C1_TempDirRemoved ==
    \A r \in Requests : Dispatched(r) /\ Returned(r) => tmp_dir[r] \notin dirs

(* C2: download_video returns a DownloadResult only with a size within     *)
(* max_file_bytes; a transfer that ends with a derived size above the      *)
(* ceiling raises FileTooLargeError; no file the coordinator sends has a   *)
(* recorded size above the ceiling.                                        *)
C2_CeilingKept ==
    \A r \in Requests :
        /\ lib[r].size > MaxFileBytes => result[r].kind = "FileTooLargeError"
        /\ result[r].kind = "ok" =>
              result[r].size = lib[r].size /\ result[r].size <= MaxFileBytes
        /\ delivered[r] # -1 => delivered[r] <= MaxFileBytes

C2_Witness ==
    \E r \in Requests : wpc[r] = "finished" /\ lib[r].size > MaxFileBytes

(* C3: an estimate above max_file_bytes makes download_video raise         *)
(* FileTooLargeError without ever making the transfer call, so that the    *)
(* request's directory holds no output file.                               *)
C3_EstimateGate ==
    \A r \in Requests :
        lib[r].est > MaxFileBytes =>
            /\ wpc[r] = "finished"
            /\ result[r].kind = "FileTooLargeError"
            /\ lib[r].transfer = 0
            /\ tmp_dir[r] \notin files

C3_Witness ==
    \E r \in Requests : lib[r].est > MaxFileBytes /\ lib[r].meta = 1

\* download_video of request r is dispatched and its handler awaits it
InFlight(r) == hpc[r] = "fetching"

(* C4: two requests in flight at the same time never use the same temp     *)
(* directory.                                                              *)
C4_DistinctTmpDirs ==
    \A r1, r2 \in Requests :
        r1 # r2 /\ InFlight(r1) /\ InFlight(r2) => tmp_dir[r1] # tmp_dir[r2]

(* C5: whatever is raised inside the two-phase fetch leaves download_video *)
(* as DownloadFailedError with the cause's text, except FileTooLargeError  *)
(* and UnsupportedURLError, which leave it as they are.                    *)
C5_ErrorMapping ==
    \A r \in Requests :
        raised[r] # NoException =>
            /\ wpc[r] = "finished"
            /\ result[r].detail = raised[r][2]
            /\ result[r].kind =
                  IF raised[r][1] \in {"FileTooLargeError", "UnsupportedURLError"}
                  THEN raised[r][1] ELSE "DownloadFailedError"

C5_Witness ==
    \E r \in Requests : raised[r] = <<"FileTooLargeError", "hook">>

(* C6: for a URL outside the allow-list download_video raises              *)
(* UnsupportedURLError at once: no directory is made, the fetch library is *)
(* neither constructed nor called.                                         *)
C6_UnsupportedFirst ==
    \A r \in Requests :
        wpc[r] \notin {"none", "start"} /\ ~SUPPORTED_DOMAINS(req[r].url) =>
            /\ wpc[r] = "finished"
            /\ result[r].kind = "UnsupportedURLError"
            /\ lib[r] = NoLib
            /\ tmp_dir[r] \notin dirs

C6_Witness ==
    \E r \in Requests : wpc[r] = "finished" /\ ~SUPPORTED_DOMAINS(req[r].url)

(* C7: two calls of progress_msg.edit_text made by throttled_edit for one  *)
(* request are at least 1.5 s apart; a task that runs sooner renders       *)
(* nothing.                                                                *)
C7_RendersSpaced ==
    [][\A r \in Requests :
          nrenders'[r] # nrenders[r] /\ last_render[r] # NoRender =>
              /\ last_render'[r] = now
              /\ now - last_render[r] >= ThrottleTicks]_vars

C7_Witness ==
    \E r \in Requests : nrenders[r] >= 2

(* C8: the percentages that become visible on one progress message never   *)
(* go down.                                                                *)
C8_ProgressMonotone ==
    [][\A r \in Requests :
          msg[r][1] = "progress" /\ msg'[r][1] = "progress" => msg'[r][2] >= msg[r][2]]_vars

\* What the user sees is the outcome of request r
TerminalOutcome(r) ==
    \/ delivered[r] # -1 /\ msg[r] = Deleted
    \/ /\ delivered[r] = -1
       /\ result[r].kind # "ok"
       /\ msg[r] = FailureText(result[r].kind, result[r].detail)
    \/ /\ delivered[r] = -1
       /\ result[r].kind = "ok"
       /\ msg[r] = FailureText("send", "")

(* C9: a request that dispatched a fetch ends with the file sent and the   *)
(* progress message removed, or with the progress message showing the text *)
(* of its failure.  Stated for the final state: the handler has returned   *)
(* and no progress edit is in flight.                                      *)
C9_TerminalOutcome ==
    \A r \in Requests :
        Dispatched(r) /\ Returned(r) /\ inflight[r] = {} => TerminalOutcome(r)

(* C10: in one selection handling the selection is shown first, then the   *)
(* membership is checked (and the gate shown to a non-member), then the    *)
(* fetch is dispatched: download_video runs only after a membership check  *)
(* of the same handling answered true.                                     *)
C10_Order ==
    \A r \in Requests :
        /\ Before(steps[r], "selection", "member_true")
        /\ Before(steps[r], "selection", "gate")
        /\ Before(steps[r], "member_true", "dispatch")
        /\ "member_false" \in Range(steps[r]) => ~Dispatched(r)
        /\ wpc[r] # "none" => Dispatched(r)

C10_Witness ==
    \E r \in Requests : Dispatched(r) /\ wpc[r] = "finished"

(* C11: prompt_for_quality classifies the normalized URL before anything   *)
(* else: a link whose normalized URL is outside the allow-list is answered *)
(* with the rejection message, without a membership check, and handling it *)
(* stores nothing in the URL cache, shows no keyboard and starts no fetch. *)
C11_UnsupportedShortCircuit ==
    [][~last_reply'.supported /\ last_reply' # NoReply =>
          /\ last_reply'.sent = "unsupported"
          /\ last_reply'.member = "not asked"
          /\ last_reply' # last_reply =>
                UNCHANGED <<url_cache, url_counter, handlerVars, workerVars, fsVars>>]_vars

C11_Witness ==
    ~last_reply.supported /\ last_reply.sent = "unsupported"

(* C12: a selection callback whose key does not resolve in the URL cache   *)
(* answers with the staleness alert and returns: no membership check, no   *)
(* progress message, no temp directory, no fetch, nothing afterwards, and  *)
(* the step leaves the cache and the download directory as they were.      *)
C12_StaleKeyAborts ==
    [][\A r \in Requests :
          req'[r].key # 0 /\ req'[r].url = <<>> =>
              /\ hpc'[r] = "stale"
              /\ steps'[r] = <<"stale_alert">>
              /\ tmp_dir'[r] = <<>>
              /\ msg'[r] = NoText
              /\ wpc'[r] = "none"
              /\ lib'[r] = NoLib
              /\ delivered'[r] = -1
              /\ hpc[r] # "stale" => UNCHANGED <<url_cache, url_counter, fsVars>>]_vars

C12_Witness ==
    \E r \in Requests : hpc[r] = "stale" /\ get_url(url_cache, req[r].key) # <<>>

\* The answer a link gets, whatever becomes of the deletion of the message
ExpectedReply(reply) ==
    IF ~reply.supported THEN "unsupported"
    ELSE IF reply.member = "False" THEN "gate"
    ELSE IF reply.member = "True" THEN "keyboard"
    ELSE "none"

(* C13: a failed message deletion changes nothing else.  A link is         *)
(* answered the same way whether its message could be deleted or not; a    *)
(* request whose file was sent ends as a success, with no failure text on  *)
(* the progress message, whether the progress message could be deleted or  *)
(* not; and the temp directory is removed in either case.                  *)
C13_DeletionCosmetic ==
    [][/\ last_reply' # last_reply =>
              /\ last_reply'.sent = ExpectedReply(last_reply')
              /\ last_reply'.sent # "keyboard" => UNCHANGED <<url_cache, url_counter>>
       /\ \A r \in Requests :
              delivered'[r] # delivered[r] =>
                  /\ hpc'[r] = "done"
                  /\ msg'[r] # FailureText("send", "")
                  /\ tmp_dir[r] \notin dirs']_vars

\* Membership can be verified: there is a channel, a username resolves, the
\* API call answers
Verifiable(a) ==
    /\ a.channel # "none"
    /\ a.channel = "@username" => a.resolved
    /\ a.answer \notin ApiErrors

SaysMember(a) == Verifiable(a) /\ a.answer \in MemberStatuses

(* C14: membership gating fails closed.  is_member raises nothing; it      *)
(* answers false whenever membership cannot be verified (no channel, the   *)
(* username does not resolve, the API call raises) and true only for a     *)
(* member status.  A link of a user for whom it answers false gets the     *)
(* gate and no keyboard; a callback of such a user ends at the gate, with  *)
(* no fetch dispatched then or later.                                      *)
C14_FailClosed ==
    [][/\ last_reply' # last_reply /\ last_reply'.member # "not asked" =>
              /\ last_reply'.member = (IF SaysMember(api) THEN "True" ELSE "False")
              /\ last_reply'.sent = (IF SaysMember(api) THEN "keyboard" ELSE "gate")
       /\ last_reply'.sent = "keyboard" => last_reply'.member = "True"
       /\ \A r \in Requests :
              /\ hpc[r] = "selected" /\ hpc'[r] # "selected" =>
                    IF SaysMember(api)
                    THEN /\ hpc'[r] = "member"
                         /\ steps'[r] = Append(steps[r], "member_true")
                    ELSE /\ hpc'[r] = "gated"
                         /\ steps'[r] = steps[r] \o <<"member_false", "gate">>
              /\ hpc[r] = "gated" => hpc'[r] = "gated"
              /\ hpc'[r] = "gated" =>
                    wpc'[r] = "none" /\ tmp_dir'[r] = <<>> /\ msg'[r] = NoText
              /\ wpc'[r] # "none" => "member_true" \in Range(steps'[r])]_vars

C14_Witness ==
    \E r \in Requests :
        hpc[r] = "gated" /\ last_reply.sent = "keyboard" /\ ~Verifiable(api)

(* C15: when the transfer call answers with requested_downloads whose      *)
(* first entry has filepath, filesize, title and ext, and the size is      *)
(* within the ceiling, download_video returns a DownloadResult with        *)
(* exactly these four values; the size the library reports is preferred,   *)
(* the size on disk is used only when the library reports none.            *)
C15_StructuredResult ==
    call.fn = "download_video.result" /\ call.done =>
        LET info == call.args[1]
            ondisk == call.args[2]
        IN  /\ /\ info.shape = "requested_downloads"
               /\ info.filesize # 0 /\ info.title # "" /\ info.ext # ""
               /\ info.filesize <= MaxFileBytes
               => call.ret = DownloadResult(info.filepath, info.title, info.ext,
                                            info.filesize)
            /\ call.ret.kind = "ok" =>
                  call.ret.size = (IF info.shape = "requested_downloads" /\ info.filesize # 0
                                   THEN info.filesize ELSE ondisk)

C15_Witness ==
    /\ call.fn = "download_video.result" /\ call.done
    /\ call.args[1].shape = "requested_downloads"
    /\ call.args[1].filesize = MaxFileBytes /\ call.args[1].title = "Sample"
    /\ call.args[1].ext = "mp4"
    /\ call.args[2] \notin {-1, MaxFileBytes}
    /\ call.ret.kind = "ok"

\* The six labels of the fixed set
Labels == {"360p", "480p", "720p", "1080p", "best", "mp3"}

(* C16: _build_opts gives each of the six labels the format selector that  *)
(* QUALITY_MAP holds for it, a selector no other label has, and gives      *)
(* every other label the selector of "best", raising nothing; it asks for  *)
(* the extraction of mp3 audio exactly for the label mp3 and for merging   *)
(* into one mp4 container for every other label.                           *)
C16_QualityResolver ==
    call.fn = "_build_opts" /\ call.done =>
        LET q == call.args[1]
            opts == call.ret
        IN  /\ q \in Labels =>
                  /\ opts.format = QUALITY_MAP[q]
                  /\ \A other \in Labels \ {q} : opts.format # QUALITY_MAP[other]
            /\ q \notin Labels => opts.format = QUALITY_MAP["best"]
            /\ q = "mp3" =>
                  /\ Len(opts.postprocessors) = 1
                  /\ opts.postprocessors[1].key = "FFmpegExtractAudio"
                  /\ opts.postprocessors[1].preferredcodec = "mp3"
                  /\ opts.merge_output_format = ""
            /\ q # "mp3" =>
                  /\ opts.postprocessors = <<>>
                  /\ opts.merge_output_format = "mp4"

C16_Witness ==
    /\ call.fn = "_build_opts" /\ call.done
    /\ call.args[1] = "MP3"
    /\ call.ret.format = QUALITY_MAP["best"]

(* C17: sanitize_url is idempotent: applied to its own result it gives    *)
(* that result again, for every URL.                                       *)
C17_SanitizeIdempotent ==
    call.fn = "sanitize_url" /\ call.done => sanitize_url(call.ret) = call.ret

\* u carries parameters
HasParameters(u) == \E i \in 1..Len(u) : u[i] \in {"?", "&"}

(* C18: normalisation preserves support: for every URL that matches the    *)
(* allow-list and carries tracking parameters, what sanitize_url returns   *)
(* matches the allow-list too.                                             *)
C18_SupportPreserved ==
    /\ call.fn = "sanitize_url" /\ call.done
    /\ SUPPORTED_DOMAINS(call.args[1]) /\ HasParameters(call.args[1])
    => SUPPORTED_DOMAINS(call.ret)

C18_Witness ==
    /\ call.fn = "sanitize_url" /\ call.done
    /\ SUPPORTED_DOMAINS(call.args[1]) /\ HasParameters(call.args[1])
    /\ ~HasParameters(call.ret)

\* The total an event reports exceeds the ceiling
OverCeiling(d) ==
    \/ d.total_bytes > MaxFileBytes
    \/ d.total_bytes = 0 /\ d.total_bytes_estimate > MaxFileBytes

\* The index of the first event over the ceiling, 0 if there is none
FirstOver(events) ==
    IF \E i \in 1..Len(events) : OverCeiling(events[i])
    THEN CHOOSE i \in 1..Len(events) :
            OverCeiling(events[i]) /\ \A j \in 1..(i - 1) : ~OverCeiling(events[j])
    ELSE 0

(* C19: the progress hook passes every event it receives on to the         *)
(* progress sink, the aborting one included, and raises FileTooLargeError  *)
(* at the first event whose total (total_bytes, else total_bytes_estimate) *)
(* exceeds max_file_bytes; events without a total or with a total within   *)
(* the ceiling never abort the transfer.                                   *)
C19_HookForwardsAndAborts ==
    call.fn = "_hook" /\ call.done =>
        LET events == call.args[1]
            sink == call.args[2]
            out == call.ret
            first == FirstOver(events)
        IN  /\ sink => out.forwarded = SubSeq(events, 1, out.seen)
            /\ first # 0 => out.seen = first /\ out.raised[1] = "FileTooLargeError"
            /\ first = 0 => out.seen = Len(events) /\ out.raised = NoException

C19_Witness ==
    /\ call.fn = "_hook" /\ call.done /\ call.args[2]
    /\ Len(call.args[1]) = 2
    /\ call.args[1][1].total_bytes = 0
    /\ call.args[1][1].total_bytes_estimate > MaxFileBytes
    /\ call.ret.forwarded = <<call.args[1][1]>>
    /\ call.ret.raised[1] = "FileTooLargeError"

\* How often step occurs in seq
Count(seq, step) == Cardinality({i \in 1..Len(seq) : seq[i] = step})

(* C20: download_video drives the fetch library through the two calls in   *)
(* order and without retry: once the library is in use exactly one         *)
(* metadata call has been made, and never a second one; the transfer call  *)
(* is made at most once, only after the metadata call returned an estimate *)
(* that passed the check; a selection callback dispatches download_video   *)
(* at most once.                                                           *)
C20_TwoCallProtocol ==
    \A r \in Requests :
        /\ lib[r].meta <= 1
        /\ lib[r].transfer <= 1
        /\ wpc[r] \in {"none", "start", "meta"} => lib[r].meta = 0 /\ lib[r].transfer = 0
        /\ lib[r].constructed /\ wpc[r] \in {"transfer", "finished"} => lib[r].meta = 1
        /\ lib[r].transfer = 1 =>
              /\ lib[r].meta = 1
              /\ raised[r][2] # "estimate"
              /\ ~EstimateTooLarge(lib[r].est)
        /\ lib[r].meta = 1 /\ wpc[r] = "finished" /\ lib[r].transfer = 0 =>
              result[r].kind \in {"FileTooLargeError", "DownloadFailedError"}
        /\ Count(steps[r], "dispatch") <= 1
        /\ wpc[r] # "none" => Count(steps[r], "dispatch") = 1

C20_Witness ==
    \E r \in Requests :
        /\ Returned(r)
        /\ lib[r].meta = 1 /\ lib[r].transfer = 1
        /\ raised[r] = <<"Exception", "DownloadError: network">>

(* C21: once handle_download_callback has written the outcome of a request *)
(* to the progress message, or deleted the message, and returned, the      *)
(* message never changes again and throttled_edit renders nothing more: no *)
(* scheduled task and no edit in flight replaces the outcome by a          *)
(* percentage.                                                             *)
C21_OutcomeStays ==
    [][\A r \in Requests :
          hpc[r] = "done" => msg'[r] = msg[r] /\ nrenders'[r] = nrenders[r]]_vars

(* C22: every URL in the URL cache is what sanitize_url made of a link,     *)
(* matches the allow-list, and was stored when the membership check of its *)
(* sender answered true; so the request of a selection callback carries a  *)
(* supported URL and its fetch never fails with UnsupportedURLError.       *)
C22_CacheSupported ==
    [][/\ \A k \in DOMAIN url_cache' :
              /\ SUPPORTED_DOMAINS(url_cache'[k])
              /\ \E url \in LinkURLs : url_cache'[k] = sanitize_url(url)
       /\ url_cache' # url_cache =>
              /\ SaysMember(api)
              /\ last_reply' = Reply(TRUE, "True", "keyboard")
       /\ \A r \in Requests :
              /\ wpc'[r] # "none" => SUPPORTED_DOMAINS(req'[r].url)
              /\ result'[r].kind # "UnsupportedURLError"
              /\ msg'[r] # FailureText("UnsupportedURLError", "")]_vars

C22_Witness ==
    \E r \in Requests :
        /\ wpc[r] = "finished"
        /\ req[r].url = url_cache[req[r].key]
        /\ result[r].kind = "ok"

(* C23: the keys of the URL cache are unique and stable: _store_url issues *)
(* a key no earlier call issued, no entry is overwritten or removed, and   *)
(* every key issued so far resolves through _get_url to the URL it was     *)
(* issued for, however links and selection callbacks interleave.           *)
C23_KeysStable ==
    [][/\ \A k \in DOMAIN url_cache : get_url(url_cache', k) = url_cache[k]
       /\ DOMAIN url_cache' = 1..url_counter'
       /\ url_cache' # url_cache =>
              /\ url_counter' \notin 1..url_counter
              /\ DOMAIN url_cache' = DOMAIN url_cache \cup {url_counter'}
       /\ \A r \in Requests :
              hpc[r] = "idle" /\ hpc'[r] # "idle" =>
                  /\ UNCHANGED <<url_cache, url_counter>>
                  /\ req'[r].url = get_url(url_cache, req'[r].key)]_vars

C23_Witness ==
    /\ url_counter = MaxStores
    /\ url_cache[1] # url_cache[2]
    /\ \E r \in Requests : hpc[r] = "selected" /\ req[r].key = 1
    /\ \E r \in Requests : hpc[r] = "stale" /\ req[r].key = 2

\* the sizes the alternative encodings declare: of each encoding its direct
\* size if that is not zero, else its approximate size, zeros left out
Declared(formats) ==
    {IF formats[i][1] # 0 THEN formats[i][1] ELSE formats[i][2] :
        i \in 1..Len(formats)} \ {0}

(* C24: _estimate_size returns the direct size if it is present and not    *)
(* zero, else the approximate size if present and not zero, else the        *)
(* largest size an alternative encoding declares, else nothing; and with no *)
(* estimate download_video does not fail but goes on to the transfer call.  *)
C24_EstimatePriority ==
    call.fn = "download_video.estimate" /\ call.done =>
        LET info == call.args[1]
            est == call.ret[1]
        IN  /\ info.filesize # 0 => est = info.filesize
            /\ info.filesize = 0 /\ info.filesize_approx # 0 =>
                   est = info.filesize_approx
            /\ info.filesize = 0 /\ info.filesize_approx = 0 =>
                   IF Declared(info.formats) = {} THEN est = 0
                   ELSE /\ est \in Declared(info.formats)
                        /\ \A size \in Declared(info.formats) : size <= est
            /\ est = 0 => call.ret[2] = "transfer"

C24_Witness ==
    /\ call.fn = "download_video.estimate" /\ call.done
    /\ call.args[1].filesize = 0 /\ call.args[1].filesize_approx = 0
    /\ Len(call.args[1].formats) = 2
    /\ \E i, j \in 1..2 : call.args[1].formats[i][1] < call.args[1].formats[j][2]
    /\ call.ret[1] \in Declared(call.args[1].formats)

====
